---- MODULE Spec2Model ----
(***************************************************************************)
(* Pomodoro timer (src/src/main.js): the session state machine, the tick   *)
(* handler, the three user actions and the display refresh.                *)
(*                                                                         *)
(* The handlers of main.js mutate module-level variables and call one      *)
(* another.  Each handler is an operator from a state record to the state  *)
(* record it leaves behind, composed exactly as the calls are nested in    *)
(* the source; each action of the specification runs one whole handler.    *)
(*                                                                         *)
(* Environment: the page holds the #app element (createUI builds the       *)
(* elements updateDisplay writes to) and the browser has an AudioContext   *)
(* constructor, as every browser that runs the file's padStart/append has. *)
(***************************************************************************)
EXTENDS Integers, Sequences, FiniteSets, TLC

VARIABLES
    workDuration,    \* main.js:11
    breakDuration,   \* main.js:13
    timeRemaining,   \* main.js:15
    isRunning,       \* main.js:17
    currentMode,     \* main.js:19
    audioContext,    \* main.js:32, FALSE = null, TRUE = created
    display,         \* what updateDisplay last wrote to the DOM
    toasts,          \* messages shown by showTimerNotification in the latest handler call
    rendered,        \* TRUE iff the latest handler call reached the DOM writes of updateDisplay
    intervalCount,   \* number of setInterval(tick, 1000) timers alive
    lastOp,          \* history: the latest handler call and its arguments
    pre,             \* history: the state the latest handler call started from
    prevOp,          \* history: name of the handler call before the latest one
    switchCount,     \* history: number of switchMode calls since init()
    run,             \* history: the ticks delivered since the latest call that was not a tick
    pending,         \* history: per mode, the duration set while running that no session has started with yet
    sess             \* history: the ticks delivered since the countdown was last left to ticks and start/pause alone

vars == <<workDuration, breakDuration, timeRemaining, isRunning, currentMode,
          audioContext, display, toasts, rendered, intervalCount, lastOp, pre, prevOp,
          switchCount, run, pending, sess>>

----------------------------------------------------------------------------
(* Constants of main.js *)

ALLOWED_DURATIONS == <<5, 10, 15, 20>>

TickElements == 20

WorkOverMessage == "Work session over - time for a break!"

BreakOverMessage == "Break over - back to work!"

----------------------------------------------------------------------------
(* Strings are sequences of one-character strings, so that parsing and     *)
(* formatting are computed character by character.                         *)

Digits == <<"0", "1", "2", "3", "4", "5", "6", "7", "8", "9">>

IsDigit(c) == \E i \in 1..10 : Digits[i] = c

DigitVal(c) == (CHOOSE i \in 1..10 : Digits[i] = c) - 1

IsSpace(c) == c = " "

RECURSIVE SkipSpaces(_)
SkipSpaces(str) ==
    IF str # <<>> /\ IsSpace(Head(str)) THEN SkipSpaces(Tail(str)) ELSE str

RECURSIVE DigitRun(_)
DigitRun(str) ==
    IF str # <<>> /\ IsDigit(Head(str)) THEN <<Head(str)>> \o DigitRun(Tail(str)) ELSE <<>>

RECURSIVE DigitsValue(_, _)
DigitsValue(ds, acc) ==
    IF ds = <<>> THEN acc ELSE DigitsValue(Tail(ds), 10 * acc + DigitVal(Head(ds)))

NaN == [nan |-> TRUE, num |-> 0]

Num(n) == [nan |-> FALSE, num |-> n]

(* parseInt(value, 10): leading white space is skipped, an optional sign is *)
(* read, then the longest run of decimal digits; no digit gives NaN.        *)
parseInt(value) ==
    LET t    == SkipSpaces(value)
        neg  == t # <<>> /\ Head(t) = "-"
        sgn  == t # <<>> /\ Head(t) \in {"-", "+"}
        body == IF sgn THEN Tail(t) ELSE t
        ds   == DigitRun(body)
    IN  IF ds = <<>> THEN NaN
        ELSE Num(IF neg THEN 0 - DigitsValue(ds, 0) ELSE DigitsValue(ds, 0))

(* Array.prototype.includes on an array of numbers: NaN is in none of them. *)
includes(arr, x) == ~x.nan /\ \E i \in 1..Len(arr) : arr[i] = x.num

RECURSIVE NatToString(_)
NatToString(n) ==
    IF n < 10 THEN <<Digits[n + 1]>> ELSE NatToString(n \div 10) \o <<Digits[(n % 10) + 1]>>

(* String(n) of an integer *)
String(n) == IF n < 0 THEN <<"-">> \o NatToString(0 - n) ELSE NatToString(n)

RECURSIVE padStart(_, _, _)
padStart(str, targetLength, fill) ==
    IF Len(str) >= targetLength THEN str ELSE padStart(<<fill>> \o str, targetLength, fill)

(* The % of JavaScript: the result has the sign of the dividend. *)
JsRem(a, b) == IF a >= 0 THEN a % b ELSE 0 - ((0 - a) % b)

(* Variant: only the minutes are padded. *)
formatSecondsUnpadded(seconds) ==
    LET m == seconds \div 60
        s == JsRem(seconds, 60)
    IN  padStart(String(m), 2, "0") \o <<":">> \o String(s)

formatMMSS(seconds) ==
    LET m == seconds \div 60
        s == JsRem(seconds, 60)
    IN  padStart(String(m), 2, "0") \o <<":">> \o padStart(String(s), 2, "0")

----------------------------------------------------------------------------
(* Session state and handlers.  A state record s holds the module-level    *)
(* variables of main.js and what the handlers have written to the page.    *)

getDuration(s, mode) == IF mode = "work" THEN s.workDuration ELSE s.breakDuration

(* The analog hand is turned by (1 - timeRemaining / totalDuration) * 360  *)
(* degrees; the angle is kept as the fraction <<numerator, denominator>>.  *)
HandAngle(remaining, total) == <<(total - remaining) * 360, total>>

(* updateDisplay: the guard on the DOM references passes once createUI ran. *)
updateDisplay(s) ==
    LET totalDuration == getDuration(s, s.currentMode)
    IN  [s EXCEPT
            !.display = [text      |-> formatMMSS(s.timeRemaining),
                         modeLabel |-> IF s.currentMode = "work" THEN "Work" ELSE "Break",
                         button    |-> IF s.isRunning THEN "Pause" ELSE "Start",
                         dataMode  |-> s.currentMode,
                         hand      |-> IF totalDuration > 0
                                       THEN HandAngle(s.timeRemaining, totalDuration)
                                       ELSE s.display.hand,
                         ticks     |-> Cardinality({i \in 0..(TickElements - 1) : i < totalDuration})],
            !.rendered = TRUE]

(* playNotificationSound: creates the AudioContext on first use; every     *)
(* failure is swallowed by its try/catch.                                  *)
playNotificationSound(s) == [s EXCEPT !.audioContext = TRUE]

showTimerNotification(s, message) == [s EXCEPT !.toasts = Append(@, message)]

(* Variant: the duration loaded is that of the mode that just ended. *)
switchModeStale(s) ==
    LET previousMode == s.currentMode
        s1 == [s EXCEPT !.currentMode = IF s.currentMode = "work" THEN "break" ELSE "work"]
        s2 == [s1 EXCEPT !.timeRemaining = getDuration(s1, previousMode)]
        s3 == playNotificationSound(s2)
        message == IF previousMode = "work" THEN WorkOverMessage ELSE BreakOverMessage
    IN  showTimerNotification(s3, message)

(* Variant: the message is chosen by the mode that starts. *)
switchModeSwapped(s) ==
    LET s1 == [s EXCEPT !.currentMode = IF s.currentMode = "work" THEN "break" ELSE "work"]
        s2 == [s1 EXCEPT !.timeRemaining = getDuration(s1, s1.currentMode)]
        s3 == playNotificationSound(s2)
        message == IF s1.currentMode = "work" THEN WorkOverMessage ELSE BreakOverMessage
    IN  showTimerNotification(s3, message)

switchMode(s) ==
    LET previousMode == s.currentMode
        s1 == [s EXCEPT !.currentMode = IF s.currentMode = "work" THEN "break" ELSE "work"]
        s2 == [s1 EXCEPT !.timeRemaining = getDuration(s1, s1.currentMode)]
        s3 == playNotificationSound(s2)
        message == IF previousMode = "work" THEN WorkOverMessage ELSE BreakOverMessage
    IN  showTimerNotification(s3, message)

(* Variant: the button only starts. *)
startOnly(s) ==
    LET s1 == [s EXCEPT !.audioContext = TRUE]
        s2 == [s1 EXCEPT !.isRunning = TRUE]
    IN  updateDisplay(s2)

(* Variant: every start creates an interval timer of its own. *)
startPauseNewInterval(s) ==
    LET s1 == [s EXCEPT !.audioContext = TRUE]
        s2 == [s1 EXCEPT !.isRunning = ~s1.isRunning]
        s3 == IF s2.isRunning THEN [s2 EXCEPT !.intervalCount = @ + 1] ELSE s2
    IN  updateDisplay(s3)

startPause(s) ==
    LET s1 == [s EXCEPT !.audioContext = TRUE]
        s2 == [s1 EXCEPT !.isRunning = ~s1.isRunning]
    IN  updateDisplay(s2)

(* Variant: reset always loads the work duration. *)
resetToWorkDuration(s) ==
    LET s1 == [s EXCEPT !.isRunning = FALSE]
        s2 == [s1 EXCEPT !.timeRemaining = getDuration(s1, "work")]
    IN  updateDisplay(s2)

(* Variant: reset also goes back to a work session. *)
resetToWorkSession(s) ==
    LET s1 == [s EXCEPT !.isRunning = FALSE, !.currentMode = "work"]
        s2 == [s1 EXCEPT !.timeRemaining = getDuration(s1, s1.currentMode)]
    IN  updateDisplay(s2)

(* Variant: reset stops the timer and leaves the countdown where it is. *)
resetOnlyStops(s) ==
    LET s1 == [s EXCEPT !.isRunning = FALSE]
    IN  updateDisplay(s1)

reset(s) ==
    LET s1 == [s EXCEPT !.isRunning = FALSE]
        s2 == [s1 EXCEPT !.timeRemaining = getDuration(s1, s1.currentMode)]
    IN  updateDisplay(s2)

(* Variant: a rejected value still reloads the countdown of an idle timer. *)
applyRejectedReloads(s, mode, value) ==
    LET sec == parseInt(value)
        s1  == IF ~includes(ALLOWED_DURATIONS, sec) THEN s
               ELSE IF mode = "work"
               THEN [s EXCEPT !.workDuration = sec.num]
               ELSE [s EXCEPT !.breakDuration = sec.num]
    IN  IF ~s1.isRunning
        THEN updateDisplay([s1 EXCEPT !.timeRemaining = getDuration(s1, s1.currentMode)])
        ELSE s1

(* Variant: no validation against ALLOWED_DURATIONS. *)
applyUnchecked(s, mode, value) ==
    LET sec == parseInt(value)
        s1  == IF mode = "work"
               THEN [s EXCEPT !.workDuration = sec.num]
               ELSE [s EXCEPT !.breakDuration = sec.num]
    IN  IF ~s1.isRunning
        THEN updateDisplay([s1 EXCEPT !.timeRemaining = getDuration(s1, s1.currentMode)])
        ELSE s1

(* Variant: an idle timer is reloaded with the duration of the edited mode. *)
applyReloadsEdited(s, mode, value) ==
    LET sec == parseInt(value)
    IN  IF ~includes(ALLOWED_DURATIONS, sec) THEN s
        ELSE LET s1 == IF mode = "work"
                       THEN [s EXCEPT !.workDuration = sec.num]
                       ELSE [s EXCEPT !.breakDuration = sec.num]
             IN  IF ~s1.isRunning
                 THEN updateDisplay([s1 EXCEPT !.timeRemaining = getDuration(s1, mode)])
                 ELSE s1

(* Variant: the countdown is reloaded whether the timer runs or not. *)
applyAlwaysReloads(s, mode, value) ==
    LET sec == parseInt(value)
    IN  IF ~includes(ALLOWED_DURATIONS, sec) THEN s
        ELSE LET s1 == IF mode = "work"
                       THEN [s EXCEPT !.workDuration = sec.num]
                       ELSE [s EXCEPT !.breakDuration = sec.num]
             IN  updateDisplay([s1 EXCEPT !.timeRemaining = getDuration(s1, s1.currentMode)])

applyDurationSetting(s, mode, value) ==
    LET sec == parseInt(value)
    IN  IF ~includes(ALLOWED_DURATIONS, sec) THEN s
        ELSE LET s1 == IF mode = "work"
                       THEN [s EXCEPT !.workDuration = sec.num]
                       ELSE [s EXCEPT !.breakDuration = sec.num]
             IN  IF ~s1.isRunning
                 THEN updateDisplay([s1 EXCEPT !.timeRemaining = getDuration(s1, s1.currentMode)])
                 ELSE s1

(* Variant: the mode switch waits until the countdown is below zero. *)
tickLate(s) ==
    IF ~s.isRunning THEN s
    ELSE LET s1 == [s EXCEPT !.timeRemaining = @ - 1]
             s2 == IF s1.timeRemaining < 0 THEN switchMode(s1) ELSE s1
         IN  updateDisplay(s2)

(* Variant: the isRunning gate is missing. *)
tickUngated(s) ==
    LET s1 == [s EXCEPT !.timeRemaining = @ - 1]
        s2 == IF s1.timeRemaining <= 0 THEN switchMode(s1) ELSE s1
    IN  updateDisplay(s2)

(* Variant: the countdown stays at zero for one tick before the switch. *)
tickRestsAtZero(s) ==
    IF ~s.isRunning THEN s
    ELSE IF s.timeRemaining <= 0 THEN updateDisplay(switchMode(s))
    ELSE updateDisplay([s EXCEPT !.timeRemaining = @ - 1])

(* Variant: at zero the countdown stays there and the mode is kept. *)
tickStopsAtZero(s) ==
    IF ~s.isRunning THEN s
    ELSE updateDisplay([s EXCEPT !.timeRemaining = IF @ - 1 <= 0 THEN 0 ELSE @ - 1])

(* Variant: the display is refreshed before the mode switch. *)
tickRendersFirst(s) ==
    IF ~s.isRunning THEN s
    ELSE LET s1 == updateDisplay([s EXCEPT !.timeRemaining = @ - 1])
         IN  IF s1.timeRemaining <= 0 THEN switchMode(s1) ELSE s1

tick(s) ==
    IF ~s.isRunning THEN s
    ELSE LET s1 == [s EXCEPT !.timeRemaining = @ - 1]
             s2 == IF s1.timeRemaining <= 0 THEN switchMode(s1) ELSE s1
         IN  updateDisplay(s2)

(* handleKeyboardShortcuts: Space starts or pauses, r or R resets, unless   *)
(* a form control has the focus (isFormControlFocused).                    *)
handleKeyboardShortcuts(s, key, formControlFocused) ==
    IF formControlFocused THEN s
    ELSE IF key = " " THEN startPause(s)
    ELSE IF key = "r" \/ key = "R" THEN reset(s)
    ELSE s

----------------------------------------------------------------------------
(* Inputs *)

Modes == {"work", "break"}

(* Values a duration selector can hand to applyDurationSetting: the four   *)
(* options createUI builds, and values no option carries.                  *)
OptionValues == {<<"5">>, <<"1", "0">>, <<"1", "5">>, <<"2", "0">>}

OtherValues == {<<"0">>, <<"7">>, <<"2", "5">>, <<"a", "b", "c">>, <<"2", "0", "s">>}

Values == OptionValues \cup OtherValues

Keys == {" ", "r", "R", "x"}

----------------------------------------------------------------------------
(* Specification *)

Cur ==
    [workDuration  |-> workDuration,
     breakDuration |-> breakDuration,
     timeRemaining |-> timeRemaining,
     isRunning     |-> isRunning,
     currentMode   |-> currentMode,
     audioContext  |-> audioContext,
     display       |-> display,
     toasts        |-> toasts,
     rendered      |-> rendered,
     intervalCount |-> intervalCount]

(* The five session variables of a state. *)
Session(s) ==
    [workDuration  |-> s.workDuration,
     breakDuration |-> s.breakDuration,
     timeRemaining |-> s.timeRemaining,
     isRunning     |-> s.isRunning,
     currentMode   |-> s.currentMode]

(* The state a handler call starts from: nothing shown or drawn yet by it. *)
Begin == [Cur EXCEPT !.toasts = <<>>, !.rendered = FALSE]

Op(name, mode, value) == [name |-> name, mode |-> mode, value |-> value]

(* The program variables after a handler call that returns in state s. *)
Returns(s) ==
    /\ workDuration'  = s.workDuration
    /\ breakDuration' = s.breakDuration
    /\ timeRemaining' = s.timeRemaining
    /\ isRunning'     = s.isRunning
    /\ currentMode'   = s.currentMode
    /\ audioContext'  = s.audioContext
    /\ display'       = s.display
    /\ toasts'        = s.toasts
    /\ rendered'      = s.rendered
    /\ intervalCount' = s.intervalCount

(* One handler call, from Begin to the state s it returns in, recorded    *)
(* with the call, the state it started from and the call before it.        *)
Call(op, s) ==
    /\ Returns(s)
    /\ lastOp'        = op
    /\ pre'           = Session(Cur)
    /\ prevOp'        = lastOp.name
    /\ UNCHANGED <<switchCount, run, pending, sess>>

(* A run of ticks that starts in state s: no tick and no switch yet. *)
RunFrom(s) ==
    [start    |-> s.timeRemaining,
     mode     |-> s.currentMode,
     running  |-> s.isRunning,
     ticks    |-> 0,
     switches |-> 0]

(* A countdown of s.timeRemaining seconds that only ticks and start/pause  *)
(* presses have touched: no tick has been delivered to it yet.             *)
SessFrom(s) ==
    [start  |-> s.timeRemaining,
     n      |-> 0,
     paused |-> FALSE,
     ended  |-> FALSE]

(* The state the module-level declarations give, before init() runs. *)
Loaded ==
    [workDuration  |-> 10,
     breakDuration |-> 5,
     timeRemaining |-> 10,
     isRunning     |-> FALSE,
     currentMode   |-> "work",
     audioContext  |-> FALSE,
     display       |-> [text |-> <<>>, modeLabel |-> "", button |-> "", dataMode |-> "work",
                        hand |-> <<0, 1>>, ticks |-> TickElements],
     toasts        |-> <<>>,
     rendered      |-> FALSE,
     intervalCount |-> 0]

(* init(): createUI, updateDisplay, the keydown listener, one setInterval. *)
init(s) ==
    LET s1 == updateDisplay(s)
    IN  [s1 EXCEPT !.intervalCount = @ + 1]

Init ==
    LET s == init(Loaded)
    IN  /\ workDuration  = s.workDuration
        /\ breakDuration = s.breakDuration
        /\ timeRemaining = s.timeRemaining
        /\ isRunning     = s.isRunning
        /\ currentMode   = s.currentMode
        /\ audioContext  = s.audioContext
        /\ display       = s.display
        /\ toasts        = s.toasts
        /\ rendered      = s.rendered
        /\ intervalCount = s.intervalCount
        /\ lastOp        = Op("init", "", <<>>)
        /\ pre           = Session(Loaded)
        /\ prevOp        = "none"
        /\ switchCount   = 0
        /\ run           = RunFrom(s)
        /\ pending       = [work |-> 0, break |-> 0, started |-> ""]
        /\ sess          = SessFrom(s)

(* An interval timer fires: there is one to fire. *)
Tick ==
    /\ intervalCount > 0
    /\ Call(Op("tick", "", <<>>), tick(Begin))

(* Click on the Start/Pause button. *)
StartPause == Call(Op("startPause", "", <<>>), startPause(Begin))

(* Click on the Reset button. *)
Reset == Call(Op("reset", "", <<>>), reset(Begin))

(* A change event of the work or the break selector. *)
ApplyDurationSetting ==
    \E mode \in Modes, value \in Values :
        Call(Op("applyDurationSetting", mode, value), applyDurationSetting(Begin, mode, value))

(* The handler a keydown event reaches. *)
Dispatched(key, formControlFocused) ==
    IF formControlFocused THEN "ignoredKey"
    ELSE IF key = " " THEN "startPause"
    ELSE IF key = "r" \/ key = "R" THEN "reset"
    ELSE "ignoredKey"

(* A keydown event; lastOp records the handler it reached. *)
KeyDown ==
    \E key \in Keys, formControlFocused \in BOOLEAN :
        Call(Op(Dispatched(key, formControlFocused), "", <<>>),
             handleKeyboardShortcuts(Begin, key, formControlFocused))

Next == Tick \/ StartPause \/ Reset \/ ApplyDurationSetting \/ KeyDown

Spec == Init /\ [][Next]_vars

----------------------------------------------------------------------------
(* Vocabulary of the properties.  It is written down independently of the  *)
(* handlers: the allowed set as a set, and the integer a decimal literal   *)
(* denotes as a table.                                                     *)

AllowedSet == {5, 10, 15, 20}

IntegerLiterals == {<<"0">>, <<"5">>, <<"7">>, <<"1", "0">>, <<"1", "5">>, <<"2", "0">>, <<"2", "5">>}

Seconds(value) ==
    CASE value = <<"0">>      -> 0
      [] value = <<"5">>      -> 5
      [] value = <<"7">>      -> 7
      [] value = <<"1", "0">> -> 10
      [] value = <<"1", "5">> -> 15
      [] value = <<"2", "0">> -> 20
      [] value = <<"2", "5">> -> 25

Other(mode) == IF mode = "work" THEN "break" ELSE "work"

DurationOf(mode) == IF mode = "work" THEN workDuration ELSE breakDuration

PreDurationOf(mode) == IF mode = "work" THEN pre.workDuration ELSE pre.breakDuration

(* The latest call was setDuration(m, s) with an integer s in, or outside, the allowed set. *)
SetAllowed ==
    /\ lastOp.name = "applyDurationSetting"
    /\ lastOp.value \in IntegerLiterals
    /\ Seconds(lastOp.value) \in AllowedSet

SetOutside ==
    /\ lastOp.name = "applyDurationSetting"
    /\ lastOp.value \in IntegerLiterals
    /\ Seconds(lastOp.value) \notin AllowedSet

----------------------------------------------------------------------------
(* Observed specifications.  The program is the same handlers on the same  *)
(* events; what differs from Spec is the history that is recorded about    *)
(* the calls: obs = "run" counts the ticks delivered in a row, "count"     *)
(* counts the switchMode calls, "pending" follows the durations set while  *)
(* running, "session" counts the ticks delivered to a countdown while it   *)
(* runs, "none" records nothing.                                           *)

MaxSwitches == 3

(* The run of ticks after one more call: a tick extends it, counting the   *)
(* switchMode calls, up to one tick past the end of the session it started *)
(* in; any other call starts a new run from the state it returns in.       *)
NextRun(op, s) ==
    IF op.name # "tick" THEN RunFrom(s)
    ELSE IF run.ticks <= run.start
         THEN [run EXCEPT !.ticks = @ + 1, !.switches = @ + Len(s.toasts)]
         ELSE [run EXCEPT !.ticks = run.start + 2]

(* A session of mode m starts in the call: reset in m, or a switch into m. *)
SessionStarts(op, s, m) == s.currentMode = m /\ (op.name = "reset" \/ s.toasts # <<>>)

(* The duration of mode m that waits for a session after the call.         *)
NextPendingOf(op, s, m) ==
    IF op.name = "applyDurationSetting" /\ op.mode = m
    THEN IF isRunning /\ op.value \in IntegerLiterals /\ Seconds(op.value) \in AllowedSet
         THEN Seconds(op.value)
         ELSE 0
    ELSE IF SessionStarts(op, s, m) THEN 0
    ELSE pending[m]

NextPending(op, s) ==
    [work    |-> NextPendingOf(op, s, "work"),
     break   |-> NextPendingOf(op, s, "break"),
     started |-> IF \E m \in Modes : pending[m] # 0 /\ SessionStarts(op, s, m)
                 THEN s.currentMode ELSE ""]

(* The countdown after one more call.  A tick delivered while isRunning is *)
(* true is counted in n, and ended tells whether that call reached         *)
(* switchMode; a tick delivered while paused, after the countdown began,   *)
(* is noted in paused; start/pause and an ignored key leave the count      *)
(* alone; reset, a duration setting, and the call after a switch begin a   *)
(* new countdown.                                                          *)
NextSess(op, s) ==
    LET cur == IF sess.ended THEN SessFrom(Cur) ELSE sess
    IN  IF op.name = "tick"
        THEN IF isRunning
             THEN [cur EXCEPT !.n = @ + 1, !.ended = s.toasts # <<>>]
             ELSE [cur EXCEPT !.paused = @ \/ cur.n > 0]
        ELSE IF op.name \in {"startPause", "ignoredKey"} THEN cur
        ELSE SessFrom(s)

ObservedCall(obs, op, s) ==
    /\ Returns(s)
    /\ UNCHANGED <<pre, prevOp>>
    /\ lastOp' = IF obs = "pending" THEN Op(op.name, op.mode, <<>>) ELSE lastOp
    /\ run' = IF obs = "run" THEN NextRun(op, s) ELSE run
    /\ pending' = IF obs = "pending" THEN NextPending(op, s) ELSE pending
    /\ sess' = IF obs = "session" THEN NextSess(op, s) ELSE sess
    /\ switchCount' = IF obs = "count" THEN switchCount + Len(s.toasts) ELSE switchCount
    /\ obs = "count" => switchCount + Len(s.toasts) <= MaxSwitches

ObservedTick(obs) ==
    /\ intervalCount > 0
    /\ ObservedCall(obs, Op("tick", "", <<>>), tick(Begin))

ObservedStartPause(obs) == ObservedCall(obs, Op("startPause", "", <<>>), startPause(Begin))

ObservedReset(obs) == ObservedCall(obs, Op("reset", "", <<>>), reset(Begin))

ObservedApplyDurationSetting(obs) ==
    \E mode \in Modes, value \in Values :
        ObservedCall(obs, Op("applyDurationSetting", mode, value),
                     applyDurationSetting(Begin, mode, value))

ObservedKeyDown(obs) ==
    \E key \in Keys, formControlFocused \in BOOLEAN :
        ObservedCall(obs, Op(Dispatched(key, formControlFocused), "", <<>>),
                     handleKeyboardShortcuts(Begin, key, formControlFocused))

ObservedNext(obs) ==
    \/ ObservedTick(obs)
    \/ ObservedStartPause(obs)
    \/ ObservedReset(obs)
    \/ ObservedApplyDurationSetting(obs)
    \/ ObservedKeyDown(obs)

RunSpec == Init /\ [][ObservedNext("run")]_vars

CountSpec == Init /\ [][ObservedNext("count")]_vars

PendingSpec == Init /\ [][ObservedNext("pending")]_vars

SessionSpec == Init /\ [][ObservedNext("session")]_vars

(* The interval timer keeps firing for as long as the page lives. *)
FairSpec == Init /\ [][ObservedNext("none")]_vars /\ WF_vars(ObservedTick("none"))

(* formatMMSS on its own: the countdown holds any number of seconds from   *)
(* 0 to 5999 and updateDisplay writes its text.                            *)
FormatInit ==
    /\ timeRemaining \in 0..5999
    /\ workDuration  = Loaded.workDuration
    /\ breakDuration = Loaded.breakDuration
    /\ isRunning     = Loaded.isRunning
    /\ currentMode   = Loaded.currentMode
    /\ audioContext  = Loaded.audioContext
    /\ display       = Loaded.display
    /\ toasts        = Loaded.toasts
    /\ rendered      = Loaded.rendered
    /\ intervalCount = 1
    /\ lastOp        = Op("init", "", <<>>)
    /\ pre           = Session(Loaded)
    /\ prevOp        = "none"
    /\ switchCount   = 0
    /\ run           = RunFrom(Loaded)
    /\ pending       = [work |-> 0, break |-> 0, started |-> ""]
    /\ sess          = SessFrom(Loaded)

Format ==
    /\ Returns(updateDisplay(Begin))
    /\ UNCHANGED <<lastOp, pre, prevOp, switchCount, run, pending, sess>>

FormatSpec == FormatInit /\ [][Format]_vars

----------------------------------------------------------------------------
(* C1: a tick taken while running decrements remainingSeconds by one; if   *)
(* the decremented value is <= 0 the same call flips the mode, loads the   *)
(* new mode's configured duration and keeps running; otherwise the mode    *)
(* and both durations are unchanged.                                       *)
RunningTickStep ==
    (lastOp.name = "tick" /\ pre.isRunning) =>
        LET decremented == pre.timeRemaining - 1
        IN  /\ workDuration = pre.workDuration
            /\ breakDuration = pre.breakDuration
            /\ isRunning
            /\ IF decremented <= 0
               THEN /\ currentMode = Other(pre.currentMode)
                    /\ timeRemaining = DurationOf(currentMode)
               ELSE /\ currentMode = pre.currentMode
                    /\ timeRemaining = decremented

(* A break that ran out: the tick switched to work and loaded a work       *)
(* duration that differs from the break duration.                          *)
RunningTickSwitched ==
    /\ lastOp.name = "tick"
    /\ pre.isRunning
    /\ pre.timeRemaining = 1
    /\ pre.currentMode = "break"
    /\ currentMode = "work"
    /\ workDuration = 15
    /\ breakDuration = 5
    /\ timeRemaining = 15

(* C2: a tick taken while paused changes none of the five session fields   *)
(* and emits no session-ended notification.                                *)
PausedTickNoOp ==
    (lastOp.name = "tick" /\ ~pre.isRunning) =>
        /\ Session(Cur) = pre
        /\ toasts = <<>>

(* Two paused ticks in a row, part-way through a break. *)
PausedTickTwice ==
    /\ lastOp.name = "tick"
    /\ prevOp = "tick"
    /\ ~pre.isRunning
    /\ currentMode = "break"
    /\ timeRemaining < breakDuration

(* C3: reset leaves the timer stopped with the current mode's configured   *)
(* duration, in the same mode and with the same durations.                 *)
ResetStep ==
    lastOp.name = "reset" =>
        /\ ~isRunning
        /\ timeRemaining = DurationOf(currentMode)
        /\ currentMode = pre.currentMode
        /\ workDuration = pre.workDuration
        /\ breakDuration = pre.breakDuration

(* A reset of a running break, part-way through, with unequal durations. *)
ResetDuringBreak ==
    /\ lastOp.name = "reset"
    /\ pre.isRunning
    /\ pre.currentMode = "break"
    /\ pre.timeRemaining < pre.breakDuration
    /\ pre.breakDuration # pre.workDuration
    /\ currentMode = "break"

(* C4: toggleRun negates isRunning and changes no other session field, and *)
(* the second of two consecutive calls restores the state the first one    *)
(* started from.                                                           *)
ToggleRunStep ==
    /\ [](lastOp.name = "startPause" => Session(Cur) = [pre EXCEPT !.isRunning = ~pre.isRunning])
    /\ [][(lastOp.name = "startPause" /\ lastOp'.name = "startPause") => Session(Cur)' = pre]_vars

(* Paused and resumed part-way through a countdown by two calls in a row. *)
ToggledTwice ==
    /\ lastOp.name = "startPause"
    /\ prevOp = "startPause"
    /\ isRunning
    /\ timeRemaining < DurationOf(currentMode)

(* C5: setDuration with an integer outside the allowed set changes none   *)
(* of the five session fields, idle or running, and the operation that     *)
(* follows it has its usual effect: a start/pause toggles, a reset stops   *)
(* and reloads, a valid setDuration is accepted, a running tick counts.    *)
RejectedSetDuration ==
    /\ [](SetOutside => Session(Cur) = pre)
    /\ [][SetOutside =>
            /\ lastOp'.name = "startPause" => isRunning' = ~isRunning
            /\ lastOp'.name = "reset" => (~isRunning' /\ timeRemaining' = DurationOf(currentMode))
            /\ SetAllowed' =>
                   (IF lastOp'.mode = "work" THEN workDuration' ELSE breakDuration')
                       = Seconds(lastOp'.value)
            /\ (lastOp'.name = "tick" /\ isRunning /\ timeRemaining > 1) =>
                   timeRemaining' = timeRemaining - 1]_vars

(* 25 seconds refused for the current mode of a timer paused part-way. *)
RejectedWhileIdle ==
    /\ SetOutside
    /\ Seconds(lastOp.value) = 25
    /\ lastOp.mode = pre.currentMode
    /\ ~pre.isRunning
    /\ pre.timeRemaining < PreDurationOf(pre.currentMode)

(* C6: setDuration(m, s) with s allowed, on a timer that is not running,   *)
(* sets the duration of m to s, keeps the other duration, the mode and     *)
(* isRunning, and loads the current mode's configured duration.            *)
IdleSetDuration ==
    (SetAllowed /\ ~pre.isRunning) =>
        /\ DurationOf(lastOp.mode) = Seconds(lastOp.value)
        /\ DurationOf(Other(lastOp.mode)) = PreDurationOf(Other(lastOp.mode))
        /\ currentMode = pre.currentMode
        /\ ~isRunning
        /\ timeRemaining = DurationOf(currentMode)

(* The other mode's duration edited on a timer paused part-way. *)
IdleSetOtherMode ==
    /\ SetAllowed
    /\ ~pre.isRunning
    /\ lastOp.mode # pre.currentMode
    /\ pre.timeRemaining < PreDurationOf(pre.currentMode)
    /\ Seconds(lastOp.value) # PreDurationOf(lastOp.mode)
    /\ Seconds(lastOp.value) # DurationOf(currentMode)

(* C7: setDuration(m, s) with s allowed, on a running timer, changes the   *)
(* duration of m and nothing else.                                         *)
RunningSetDuration ==
    (SetAllowed /\ pre.isRunning) =>
        /\ DurationOf(lastOp.mode) = Seconds(lastOp.value)
        /\ DurationOf(Other(lastOp.mode)) = PreDurationOf(Other(lastOp.mode))
        /\ currentMode = pre.currentMode
        /\ isRunning
        /\ timeRemaining = pre.timeRemaining

(* The running mode's own duration changed part-way through its countdown. *)
RunningSetCurrentMode ==
    /\ SetAllowed
    /\ pre.isRunning
    /\ lastOp.mode = pre.currentMode
    /\ Seconds(lastOp.value) # PreDurationOf(lastOp.mode)
    /\ pre.timeRemaining < PreDurationOf(pre.currentMode)
    /\ pre.timeRemaining # Seconds(lastOp.value)

(* C8 as stated: in every reachable state remainingSeconds is at most the *)
(* duration configured for the current mode.                               *)
RemainingWithinDuration == timeRemaining <= DurationOf(currentMode)

(* C8, amended: the bound holds initially and every operation preserves    *)
(* it, except a setDuration for the current mode made while running; and   *)
(* remainingSeconds never exceeds the largest allowed duration.            *)
RemainingWithinDurationUnlessEdited ==
    /\ RemainingWithinDuration
    /\ [](\E d \in AllowedSet : timeRemaining <= d)
    /\ [][(/\ RemainingWithinDuration
           /\ ~(/\ lastOp'.name = "applyDurationSetting"
                /\ lastOp'.mode = currentMode
                /\ isRunning))
          => RemainingWithinDuration']_vars

(* While a session runs, the other mode's duration is set below the        *)
(* remaining time: the bound for the current mode is kept.                 *)
OtherModeEditedBelowRemaining ==
    /\ SetAllowed
    /\ pre.isRunning
    /\ lastOp.mode # currentMode
    /\ DurationOf(lastOp.mode) < timeRemaining
    /\ timeRemaining < DurationOf(currentMode)

(* C9: both configured durations are always members of the allowed set,    *)
(* and a setDuration with an integer outside it keeps both prior values.   *)
DurationsAllowed ==
    /\ workDuration \in AllowedSet
    /\ breakDuration \in AllowedSet
    /\ SetOutside => (workDuration = pre.workDuration /\ breakDuration = pre.breakDuration)

(* 7 seconds refused for work after both durations had been changed. *)
RejectedAfterChanges ==
    /\ SetOutside
    /\ Seconds(lastOp.value) = 7
    /\ lastOp.mode = "work"
    /\ prevOp = "applyDurationSetting"
    /\ workDuration = 20
    /\ breakDuration = 15

(* C10: the mode differs from the mode before the latest operation only    *)
(* if that operation was a tick taken while running that brought           *)
(* remainingSeconds to zero.                                               *)
ModeChangesOnlyAtZero ==
    currentMode # pre.currentMode =>
        /\ lastOp.name = "tick"
        /\ pre.isRunning
        /\ pre.timeRemaining - 1 = 0

(* A work session that ran out. *)
WorkRanOut ==
    /\ lastOp.name = "tick"
    /\ pre.currentMode = "work"
    /\ currentMode = "break"
    /\ pre.timeRemaining = 1

(* C13: a session-ended notification is shown exactly when the latest     *)
(* operation changed the mode, once, with the message of the mode that     *)
(* ended; only a tick shows one.                                           *)
SessionEndedOncePerSwitch ==
    /\ toasts = IF currentMode # pre.currentMode
                THEN <<IF pre.currentMode = "work" THEN WorkOverMessage ELSE BreakOverMessage>>
                ELSE <<>>
    /\ toasts # <<>> => lastOp.name = "tick"

(* The end of a break was announced. *)
BreakOverNotified ==
    /\ lastOp.name = "tick"
    /\ pre.currentMode = "break"
    /\ currentMode = "work"
    /\ toasts = <<BreakOverMessage>>

(* C14: setDuration(m, s) with s allowed and m the current mode, followed  *)
(* at once by reset, leaves remainingSeconds = s and the timer stopped.    *)
SetThenReset ==
    [][(SetAllowed /\ lastOp.mode = currentMode /\ lastOp'.name = "reset")
        => (timeRemaining' = Seconds(lastOp.value) /\ ~isRunning')]_vars

(* A reset right after the running break's duration was set below the      *)
(* remaining time.                                                         *)
ResetAfterRunningSet ==
    /\ lastOp.name = "reset"
    /\ prevOp = "applyDurationSetting"
    /\ pre.isRunning
    /\ pre.currentMode = "break"
    /\ pre.timeRemaining > pre.breakDuration
    /\ timeRemaining = breakDuration
    /\ ~isRunning

(* C15: every setDuration with an allowed value refreshes the display,     *)
(* running or not.                                                         *)
SetDurationRenders == SetAllowed => rendered

(* C16: after every operation the displayed countdown, mode and button     *)
(* are those of the state; start/pause, reset and a running tick end with  *)
(* a refresh.                                                              *)
RenderedMatchesState ==
    /\ display.text = formatMMSS(timeRemaining)
    /\ display.modeLabel = (IF currentMode = "work" THEN "Work" ELSE "Break")
    /\ display.dataMode = currentMode
    /\ display.button = (IF isRunning THEN "Pause" ELSE "Start")
    /\ lastOp.name \in {"startPause", "reset"} => rendered
    /\ (lastOp.name = "tick" /\ pre.isRunning) => rendered

(* A tick that switched from work to a five-second break and drew it. *)
SwitchRendered ==
    /\ lastOp.name = "tick"
    /\ pre.currentMode = "work"
    /\ currentMode = "break"
    /\ toasts # <<>>
    /\ display.modeLabel = "Break"
    /\ display.text = <<"0", "0", ":", "0", "5">>

(* C18: the initial state is a stopped work session with the full work     *)
(* duration of 10 (break 5), and ticks leave it so.                        *)
InitialSession ==
    /\ currentMode = "work"
    /\ ~isRunning
    /\ workDuration = 10
    /\ breakDuration = 5
    /\ timeRemaining = workDuration

InitialStateKept ==
    /\ InitialSession
    /\ [][(InitialSession /\ lastOp'.name = "tick") => InitialSession']_vars

(* Two ticks in a row on the timer that was never started. *)
TickedBeforeStart ==
    /\ lastOp.name = "tick"
    /\ prevOp = "tick"
    /\ ~audioContext
    /\ InitialSession

(* C11: in a run of ticks that starts in a running state with r seconds   *)
(* left in mode m, the first r - 1 ticks count down in m without a switch, *)
(* the r-th tick makes the one switch and loads the other mode's duration, *)
(* and the tick after it counts down in the new mode without a switch.     *)
TickRunSwitchesOnce ==
    run.running =>
        /\ isRunning
        /\ run.ticks < run.start =>
               /\ run.switches = 0
               /\ currentMode = run.mode
               /\ timeRemaining = run.start - run.ticks
        /\ run.ticks = run.start =>
               /\ run.switches = 1
               /\ currentMode = Other(run.mode)
               /\ timeRemaining = DurationOf(currentMode)
        /\ run.ticks = run.start + 1 =>
               /\ run.switches = 1
               /\ currentMode = Other(run.mode)
               /\ timeRemaining = DurationOf(currentMode) - 1

(* Ten ticks from a full ten-second work session: a break with its full    *)
(* duration.                                                               *)
TenTicksEndWork ==
    /\ run.running
    /\ run.mode = "work"
    /\ run.start = 10
    /\ run.ticks = 10
    /\ currentMode = "break"
    /\ timeRemaining = breakDuration

(* C12: after n switchMode calls since the start the mode is break when n  *)
(* is odd and work when n is even, whatever was done in between.           *)
SwitchParity == currentMode = (IF switchCount % 2 = 1 THEN "break" ELSE "work")

(* Back in work after two switches, paused part-way with the work duration *)
(* changed.                                                                *)
SecondSwitchBackToWork ==
    /\ switchCount = 2
    /\ currentMode = "work"
    /\ ~isRunning
    /\ workDuration = 20
    /\ timeRemaining < workDuration

(* C17: for 0 <= seconds <= 5999 formatMMSS gives the five characters     *)
(* MM:SS, MM = floor(seconds / 60) and SS = seconds mod 60, two decimal    *)
(* digits each; 125 gives 02:05, 5 gives 00:05, 0 gives 00:00.             *)
Numeral(d) ==
    CASE d = 0 -> "0" [] d = 1 -> "1" [] d = 2 -> "2" [] d = 3 -> "3" [] d = 4 -> "4"
      [] d = 5 -> "5" [] d = 6 -> "6" [] d = 7 -> "7" [] d = 8 -> "8" [] d = 9 -> "9"

TwoDigits(n) == <<Numeral(n \div 10), Numeral(n % 10)>>

FormatIsMMSS ==
    /\ rendered => /\ Len(display.text) = 5
                   /\ display.text = TwoDigits(timeRemaining \div 60) \o <<":">>
                                         \o TwoDigits(timeRemaining % 60)
    /\ (rendered /\ timeRemaining = 125) => display.text = <<"0", "2", ":", "0", "5">>
    /\ (rendered /\ timeRemaining = 5) => display.text = <<"0", "0", ":", "0", "5">>
    /\ (rendered /\ timeRemaining = 0) => display.text = <<"0", "0", ":", "0", "0">>

(* 125 seconds drawn as 02:05. *)
Formatted125 ==
    /\ rendered
    /\ timeRemaining = 125
    /\ display.text = <<"0", "2", ":", "0", "5">>

(* C19: the tick handler can be run in every reachable state, and if the  *)
(* timer stays running from some point on, then, with the interval timer   *)
(* firing for ever, switches happen again and again and both modes come    *)
(* round again and again.                                                  *)
CyclesForever ==
    /\ [](ENABLED ObservedTick("none"))
    /\ (<>[]isRunning) =>
           /\ []<>(toasts # <<>>)
           /\ []<>(currentMode = "work")
           /\ []<>(currentMode = "break")

(* A running break ran out and work began again: one full cycle. *)
CycleClosed ==
    /\ isRunning
    /\ currentMode = "work"
    /\ toasts = <<BreakOverMessage>>

(* C20.  A duration s set for mode m while running waits in pending[m]    *)
(* until a session of m starts or a later setDuration for m is made.       *)

(* The running countdown keeps its value when a duration is set. *)
RunningSetKeepsCountdown ==
    (lastOp'.name = "applyDurationSetting" /\ isRunning) => timeRemaining' = timeRemaining

(* The next session of m, started by a switch into m or by reset in m,     *)
(* starts with s.                                                          *)
NextSessionStartsWithNew ==
    \A m \in Modes :
        (pending[m] # 0 /\ currentMode' = m /\ (lastOp'.name = "reset" \/ toasts' # <<>>))
            => timeRemaining' = pending[m]

(* The step loads the waiting duration of m into the countdown: it is not  *)
(* a plain decrement and not a setDuration for m.                          *)
TakesEffect(m) ==
    /\ pending[m] # 0
    /\ currentMode' = m
    /\ timeRemaining' = pending[m]
    /\ timeRemaining' # timeRemaining
    /\ lastOp'.name # "tick" \/ toasts' # <<>>
    /\ ~(lastOp'.name = "applyDurationSetting" /\ lastOp'.mode = m)

(* C20 as stated: the new duration takes effect only at the next reset or  *)
(* mode switch; the running countdown keeps its value and the next session *)
(* of m starts with s.                                                     *)
NewDurationOnlyAtResetOrSwitch ==
    [][/\ RunningSetKeepsCountdown
       /\ NextSessionStartsWithNew
       /\ \A m \in Modes : TakesEffect(m) => (lastOp'.name = "reset" \/ toasts' # <<>>)]_vars

(* C20, amended: the new duration takes effect only at the next reset,     *)
(* mode switch or setDuration made while not running; the running          *)
(* countdown keeps its value and the next session of m starts with s.      *)
NewDurationAtNextLoad ==
    [][/\ RunningSetKeepsCountdown
       /\ NextSessionStartsWithNew
       /\ \A m \in Modes :
              TakesEffect(m) => \/ lastOp'.name = "reset"
                                \/ toasts' # <<>>
                                \/ (lastOp'.name = "applyDurationSetting" /\ ~isRunning)]_vars

(* The break duration was set to 20 while work ran; the break that the     *)
(* next switch started has 20 seconds.                                     *)
BreakStartedWithNew ==
    /\ pending.started = "break"
    /\ currentMode = "break"
    /\ toasts = <<WorkOverMessage>>
    /\ workDuration = 10
    /\ timeRemaining = 20

(* C21: between operations remainingSeconds is an integer from 1 to 20;   *)
(* zero is never left behind, the tick that reaches it loads the new       *)
(* mode's duration.                                                        *)
RemainingInRange == timeRemaining \in 1..20

(* The last second of a session ran out and twenty seconds were loaded. *)
LastSecondReloaded ==
    /\ lastOp.name = "tick"
    /\ pre.isRunning
    /\ pre.timeRemaining = 1
    /\ timeRemaining = 20

(* C22: there is exactly one interval timer at all times, whatever the    *)
(* user does, so one scheduler period delivers one tick, paused or not.    *)
OneTickSource == intervalCount = 1

(* A tick delivered to the paused timer after two start/pause presses and  *)
(* ticks in between.                                                       *)
PausedTickAfterPresses ==
    /\ lastOp.name = "tick"
    /\ prevOp = "startPause"
    /\ ~pre.isRunning
    /\ audioContext
    /\ timeRemaining < DurationOf(currentMode)
    /\ intervalCount = 1

(* C23: a countdown of d seconds left to ticks and start/pause presses     *)
(* alone switches mode on exactly the d-th tick delivered while isRunning  *)
(* is true: before that tick the remaining seconds are d minus the running *)
(* ticks so far, whatever number of ticks came while paused.               *)
SwitchOnDthRunningTick ==
    IF sess.ended
    THEN sess.n = sess.start
    ELSE /\ sess.n < sess.start
         /\ timeRemaining = sess.start - sess.n

(* A ten-second work session, paused and resumed with ticks in between,    *)
(* ended on its tenth running tick.                                        *)
PausedSessionEnded ==
    /\ sess.ended
    /\ sess.start = 10
    /\ sess.n = 10
    /\ sess.paused
    /\ currentMode = "break"
    /\ isRunning

====
